---- MODULE Spec2Model ----
(***************************************************************************)
(* A model of tilseg/seg.py: the post-processing of a cluster label map    *)
(* into per-cluster overlays and masks (result_image_generator), the       *)
(* geometric contour filter (filter_boolean), the immune-cluster selection *)
(* (immune_cluster_analyzer), the result writers and the batch loop        *)
(* segment_TILs.                                                           *)
(*                                                                         *)
(* Three specifications share the variables:                               *)
(*   SpecFilter    filter_boolean applied to one contour;                  *)
(*   SpecAnalyzer  the loop of immune_cluster_analyzer, one mask per step; *)
(*   Spec          image_postprocessing, called directly or from the loop  *)
(*                 of segment_TILs.                                        *)
(***************************************************************************)
EXTENDS Integers, Sequences, FiniteSets, TLC

VARIABLES
    \* ---- filter_boolean (SpecFilter)
    fb_pc,          \* "idle" | "call" | "done"
    fb_contour,     \* the contour handed to filter_boolean
    fb_result,      \* what the call produced
    \* ---- immune_cluster_analyzer (SpecAnalyzer)
    an_pc,          \* "idle" | "loop" | "done" | "error"
    an_nmasks,      \* len(masks)
    an_i,           \* masks processed so far (the next ele[0])
    contour_list,   \* per mask, the accepted contours
    count_list,     \* per mask, the number of accepted contours
    count_index,    \* index (0-based) of the running best mask
    an_csv,         \* what csv_results_compiler produced
    \* ---- the process and its file system (Spec)
    cwd,            \* the current working directory, an absolute path
    dirs,           \* the directories that exist (absolute paths)
    files,          \* the files that exist (absolute paths)
    \* ---- segment_TILs
    caller,         \* "direct": image_postprocessing is called by a user;
                    \* "segment_TILs": by the loop of segment_TILs
    seg_pc,         \* "idle" | "loop" | "done" | "raised"
    seg_i,          \* number of the file the loop is at (1-based, 0: none yet)
    in_files,       \* what os.listdir(in_dir_path) holds: per file its kind
    in_dir_path,    \* as passed, relative or absolute
    out_dir_path,
    \* ---- image_postprocessing
    pp_pc,          \* "idle" | "rig" | "base" | "overlays" | "masks" | "csv"
                    \* | "returned" | "raised"
    pp_err,         \* the exception that ended the call: [type, at]
    clusters,       \* the label map
    ori_img,        \* the caller's image array: [shape, pix, writeable]
    img_at_call,    \* history: ori_img.pix when image_postprocessing was called
    filepath,
    gen_overlays, gen_masks, gen_csv,
    masked_images,  \* final_arrays of result_image_generator (<<>>: not built)
    shares_input,   \* masked_images is a view of ori_img's storage
    masks,          \* binary_arrays
    all_masks,      \* the combined overlay
    written         \* the writes of this call: {[path, data]}

filterVars == <<fb_pc, fb_contour, fb_result>>
analyzerVars == <<an_pc, an_nmasks, an_i, contour_list, count_list, count_index, an_csv>>
fsVars == <<cwd, dirs, files>>
segVars == <<caller, seg_pc, seg_i, in_files, in_dir_path, out_dir_path>>
flagVars == <<gen_overlays, gen_masks, gen_csv>>
arrayVars == <<masked_images, shares_input, masks, all_masks>>
callVars == <<pp_pc, pp_err, clusters, ori_img, img_at_call, filepath, written>>
pipelineVars == <<fsVars, segVars, flagVars, arrayVars, callVars>>
vars == <<filterVars, analyzerVars, pipelineVars>>

-----------------------------------------------------------------------------
(* Contours.  cv2.findContours, cv2.contourArea, cv2.arcLength and         *)
(* cv2.minEnclosingCircle are library calls; a contour is modelled by the  *)
(* measurements the code takes of it:                                      *)
(*   area2  twice cv2.contourArea (the shoelace area of integer points is  *)
(*          a multiple of 1/2),                                            *)
(*   per    cv2.arcLength of the closed contour,                           *)
(*   rad    the radius cv2.minEnclosingCircle reports.                     *)

\* thresholds of filter_boolean
AreaMin == 200
AreaMax == 2000
RoundnessMax == 3

\* pi as the fraction 355/113.  For integers per^2 and area2 < 5500 the
\* comparison per^2 / (4*pi*area) < 3 has the same truth value with 355/113
\* as with pi: 355/113 - pi < 2.7e-7, so the two thresholds 6*pi*area2 and
\* 6*(355/113)*area2 differ by less than 1/113, the smallest gap between an
\* integer and a non-integer multiple of 1/113.
PiNum == 355
PiDen == 113

\* perimeter^2 / (4 * pi * area) < lim, for area # 0 (line 167, 169)
RoundnessBelow(c, lim) ==
    2 * PiDen * c.per * c.per < lim * 4 * PiNum * c.area2

\* every closed curve has perimeter^2 >= 4*pi*area, and a contour without
\* length encloses nothing
Feasible(c) ==
    /\ 2 * PiDen * c.per * c.per >= 4 * PiNum * c.area2
    /\ (c.per = 0 => c.area2 = 0)

\* lines 167-169: the roundness division and the three tests
RoundnessTest(c) ==
    IF c.area2 = 0
    THEN [status |-> "ZeroDivisionError", roundness_computed |-> TRUE,
          meets_crit |-> FALSE]
    ELSE [status |-> "ok", roundness_computed |-> TRUE,
          meets_crit |-> /\ c.area2 > 2 * AreaMin
                         /\ c.area2 < 2 * AreaMax
                         /\ RoundnessBelow(c, RoundnessMax)]

filter_boolean_inclusive(contour) ==
    IF contour.area2 # 0 /\ contour.per # 0
    THEN [status |-> "ok", roundness_computed |-> TRUE,
          meets_crit |-> /\ contour.area2 >= 2 * AreaMin
                         /\ contour.area2 <= 2 * AreaMax
                         /\ RoundnessBelow(contour, RoundnessMax)]
    ELSE [status |-> "ok", roundness_computed |-> FALSE, meets_crit |-> FALSE]

filter_boolean(contour) ==
    IF contour.area2 # 0 /\ contour.per # 0
    THEN RoundnessTest(contour)
    ELSE [status |-> "ok", roundness_computed |-> FALSE, meets_crit |-> FALSE]

\* the contours SpecFilter tries: the boundaries of the area test, the
\* degenerate contours, and perimeters on both sides of roundness 3
FilterAreas2 == {0, 1, 2, 399, 400, 401, 402, 800, 2000, 3998, 3999, 4000, 4001, 4400}
FilterPers == {0, 1, 4, 50, 71, 80, 87, 88, 123, 150, 159, 200, 274, 275, 300}
ContourInputs ==
    {c \in [area2 : FilterAreas2, per : FilterPers, rad : {10}] : Feasible(c)}

NoResult == [status |-> "none", roundness_computed |-> FALSE, meets_crit |-> FALSE]

FilterIdle ==
    /\ fb_pc = "idle"
    /\ fb_contour = [area2 |-> 0, per |-> 0, rad |-> 0]
    /\ fb_result = NoResult

FilterInit ==
    /\ fb_pc = "call"
    /\ fb_contour \in ContourInputs
    /\ fb_result = NoResult

\* one call of filter_boolean
FilterCall ==
    /\ fb_pc = "call"
    /\ fb_result' = filter_boolean(fb_contour)
    /\ fb_pc' = "done"
    /\ UNCHANGED fb_contour

-----------------------------------------------------------------------------
(* contour_generator, csv_results_compiler, immune_cluster_analyzer        *)

\* the bound on the number of raw contours cv2.findContours returns per mask
MaxContours == 2
\* the bound on len(masks) in SpecAnalyzer
MaxMasks == 3

\* the contours a mask may yield: two that pass the filter, one too small,
\* one degenerate, one not round enough
ContourA == [area2 |-> 800, per |-> 80, rad |-> 14]
ContourB == [area2 |-> 2000, per |-> 150, rad |-> 20]
ContourSmall == [area2 |-> 400, per |-> 80, rad |-> 10]
ContourLine == [area2 |-> 0, per |-> 4, rad |-> 1]
\* area in range, roundness 150^2 / (2*pi*800) > 3
ContourRagged == [area2 |-> 800, per |-> 150, rad |-> 30]
RawContours == {ContourA, ContourB, ContourSmall, ContourLine, ContourRagged}

RECURSIVE SeqsUpTo(_, _)
SeqsUpTo(S, n) ==
    IF n = 0 THEN {<<>>}
    ELSE LET shorter == SeqsUpTo(S, n - 1)
         IN shorter \cup {Append(s, x) : s \in {t \in shorter : Len(t) = n - 1}, x \in S}

RawLists == SeqsUpTo(RawContours, MaxContours)

\* lines 192-196: keep the contours filter_boolean accepts, in order
RECURSIVE FilterContours(_, _)
FilterContours(contours, acc) ==
    IF contours = <<>> THEN [status |-> "ok", contours_mod |-> acc]
    ELSE LET r == filter_boolean(Head(contours))
         IN IF r.status # "ok" THEN [status |-> r.status, contours_mod |-> acc]
            ELSE FilterContours(Tail(contours),
                                IF r.meets_crit THEN Append(acc, Head(contours)) ELSE acc)

\* a contour_generator that keeps every raw contour
contour_generator_unfiltered(contours) ==
    [status |-> "ok", contours_mod |-> contours, count |-> Len(contours)]

\* contour_generator on a mask whose raw contours (cv2.findContours) are
\* `contours`: the accepted contours and their number
contour_generator(contours) ==
    LET f == FilterContours(contours, <<>>)
    IN [status |-> f.status, contours_mod |-> f.contours_mod,
        count |-> Len(f.contours_mod)]

\* one pass of the loop body, lines 239-245, on the loop state
\* st = [contour_list, count_list, count_index] for mask number i (0-based)
AnalyzerStepGE(st, i, gen) ==
    LET cl == Append(st.count_list, gen.count)
    IN [contour_list |-> Append(st.contour_list, gen.contours_mod),
        count_list |-> cl,
        count_index |-> IF gen.count >= cl[st.count_index + 1] THEN i
                        ELSE st.count_index]

AnalyzerStep(st, i, gen) ==
    LET cl == Append(st.count_list, gen.count)
    IN [contour_list |-> Append(st.contour_list, gen.contours_mod),
        count_list |-> cl,
        count_index |-> IF gen.count > cl[st.count_index + 1] THEN i
                        ELSE st.count_index]

\* one row of the table, lines 209-215: area, perimeter and radius as
\* measured; roundness and circle area are kept as the exact fractions
\* per^2 / (4*pi*area) and pi*rad^2, written <<numerator, denominator>>
\* in units of 1/pi and of pi; the division needs area # 0
CsvRow(c) ==
    [area2 |-> c.area2, per |-> c.per,
     roundness |-> <<c.per * c.per, 2 * c.area2>>,
     circle |-> c.rad * c.rad]

\* the header of the table, lines 216-218
CsvColumns == <<"Area", "Perimeter", "Roundness", "Bounding Circle Area">>

\* a compiler that reads the first contour before looping: fails on an
\* empty list
csv_results_compiler_nonempty(cont_list) ==
    IF cont_list = <<>> \/ \E k \in 1..Len(cont_list) : cont_list[k].area2 = 0
    THEN [status |-> "IndexError", columns |-> <<>>, rows |-> <<>>]
    ELSE [status |-> "ok", columns |-> CsvColumns,
          rows |-> [k \in 1..Len(cont_list) |-> CsvRow(cont_list[k])]]

\* a compiler that fills the table from the last contour to the first
csv_results_compiler_reversed(cont_list) ==
    IF \E k \in 1..Len(cont_list) : cont_list[k].area2 = 0
    THEN [status |-> "ZeroDivisionError", columns |-> <<>>, rows |-> <<>>]
    ELSE [status |-> "ok", columns |-> CsvColumns,
          rows |-> [k \in 1..Len(cont_list) |->
                       CsvRow(cont_list[Len(cont_list) + 1 - k])]]

\* csv_results_compiler, lines 207-218: the table, or the error raised
\* (line 212 divides by the area; the table keeps the order of cont_list)
csv_results_compiler(cont_list) ==
    IF \E k \in 1..Len(cont_list) : cont_list[k].area2 = 0
    THEN [status |-> "ZeroDivisionError", columns |-> <<>>, rows |-> <<>>]
    ELSE [status |-> "ok", columns |-> CsvColumns,
          rows |-> [k \in 1..Len(cont_list) |-> CsvRow(cont_list[k])]]

NoTable == [status |-> "none", columns |-> <<>>, rows |-> <<>>]

AnalyzerIdle ==
    /\ an_pc = "idle"
    /\ an_nmasks = 0
    /\ an_i = 0
    /\ contour_list = <<>>
    /\ count_list = <<>>
    /\ count_index = 0
    /\ an_csv = NoTable

\* lines 235-237
AnalyzerInit ==
    /\ an_pc = "loop"
    /\ an_nmasks \in 1..MaxMasks
    /\ an_i = 0
    /\ contour_list = <<>>
    /\ count_list = <<>>
    /\ count_index = 0
    /\ an_csv = NoTable

\* lines 238-245: one iteration; cv2.findContours answers with `raw`
AnalyzerLoop ==
    /\ an_pc = "loop"
    /\ an_i < an_nmasks
    /\ \E raw \in RawLists :
         LET gen == contour_generator(raw)
             st == AnalyzerStep([contour_list |-> contour_list,
                                 count_list |-> count_list,
                                 count_index |-> count_index], an_i, gen)
         IN IF gen.status # "ok"
            THEN /\ an_pc' = "error"
                 /\ UNCHANGED <<an_i, contour_list, count_list, count_index>>
            ELSE /\ contour_list' = st.contour_list
                 /\ count_list' = st.count_list
                 /\ count_index' = st.count_index
                 /\ an_i' = an_i + 1
                 /\ an_pc' = "loop"
    /\ UNCHANGED <<an_nmasks, an_csv>>

\* line 247: the table of the chosen cluster
AnalyzerCompile ==
    /\ an_pc = "loop"
    /\ an_i = an_nmasks
    /\ LET t == csv_results_compiler(contour_list[count_index + 1])
       IN /\ an_csv' = t
          /\ an_pc' = IF t.status = "ok" THEN "done" ELSE "error"
    /\ UNCHANGED <<an_nmasks, an_i, contour_list, count_list, count_index>>

-----------------------------------------------------------------------------
(* Arrays.  An image is [shape, pix, writeable]: pix maps each pixel       *)
(* <<j, k>> to its cell, the flattened values of ori_img[j][k] (three      *)
(* values for an H x W x 3 image).                                         *)

\* the bounds on the pixel grid and on the labels a label map holds
Rows == 1
Cols == 2
MaxLabel == 4

Pixels == (0..(Rows - 1)) \X (0..(Cols - 1))
FirstPixel == <<0, 0>>
Labels == 0..MaxLabel

\* the pixels in the order of the loops of lines 147-148
PixelOrder ==
    [n \in 1..(Rows * Cols) |-> <<(n - 1) \div Cols, (n - 1) % Cols>>]

\* the label maps tried: the first pixel carries a, every other pixel b
LabelMaps ==
    {[p \in Pixels |-> IF p = FirstPixel THEN a ELSE b] : a \in Labels, b \in Labels}

\* the valid images tried: H x W x 3, cells of one of two colours
Colours == {<<200, 100, 50>>, <<30, 60, 90>>}
ValidImages ==
    {[shape |-> <<Rows, Cols, 3>>,
      pix |-> [p \in Pixels |-> IF p = FirstPixel THEN u ELSE v],
      writeable |-> w] : u \in Colours, v \in Colours, w \in BOOLEAN}

\* images of another shape: grey H x W, RGBA H x W x 4, and H x W x 1 x 3
InvalidImages ==
    {[shape |-> <<Rows, Cols>>, pix |-> [p \in Pixels |-> <<7>>], writeable |-> TRUE],
     [shape |-> <<Rows, Cols, 4>>, pix |-> [p \in Pixels |-> <<7, 7, 7, 7>>],
      writeable |-> TRUE],
     [shape |-> <<Rows, Cols, 1, 3>>, pix |-> [p \in Pixels |-> <<7, 7, 7>>],
      writeable |-> TRUE]}

NoImage == [shape |-> <<>>, pix |-> <<>>, writeable |-> TRUE]
NoError == [type |-> "none", at |-> "none"]

RECURSIVE MaxOf(_)
MaxOf(S) ==
    LET x == CHOOSE y \in S : TRUE
    IN IF S = {x} THEN x
       ELSE LET m == MaxOf(S \ {x}) IN IF x > m THEN x ELSE m

Range(f) == {f[x] : x \in DOMAIN f}

\* line 142: num_clust = int(img_clust.max() + 1)
NumClust(img_clust) == MaxOf(Range(img_clust)) + 1

\* the shape of one cell image[j][k], and numpy's rule for assigning the
\* length-3 array `black` to it: the cell's last axis must have length 3
CellShape(shape) == SubSeq(shape, 3, Len(shape))
CanAssignRGB(shape) ==
    LET cs == CellShape(shape) IN Len(cs) >= 1 /\ cs[Len(cs)] = 3
ZeroCell(cell) == [n \in 1..Len(cell) |-> 0]

\* a palette with red and blue exchanged (the BGR order cv2 writes files in)
colors_overlay_bgr ==
    << <<0, 0, 0>>, <<0, 0, 255>>, <<0, 255, 0>>, <<255, 0, 0>> >>

\* lines 135-138
black == <<0, 0, 0>>
colors_overlay == << <<0, 0, 0>>, <<255, 0, 0>>, <<0, 255, 0>>, <<0, 0, 255>> >>

\* colors_overlay[key], line 153: an index past the table raises
PaletteLookupCycle(key) ==
    [status |-> "ok", colour |-> colors_overlay[(key % Len(colors_overlay)) + 1]]

PaletteLookup(key) ==
    IF key >= Len(colors_overlay)
    THEN [status |-> "IndexError", colour |-> black]
    ELSE [status |-> "ok", colour |-> colors_overlay[key + 1]]

\* gen_base_arrays, lines 119-126: num_clusts copies of the image stacked,
\* zeroed masks and a zeroed combined overlay.  With num_clusts = 1 the loop
\* of line 124 does not run and final_array stays np.expand_dims(ori_image, 0),
\* a view of ori_image's storage; np.vstack makes a fresh array
gen_base_arrays_white(ori_image, num_clusts) ==
    [final_array |-> [n \in 1..num_clusts |->
                        [p \in Pixels |-> [c \in 1..Len(ori_image.pix[p]) |-> 255]]],
     shares |-> FALSE,
     binary_array |-> [n \in 1..num_clusts |-> [p \in Pixels |-> 0]],
     all_mask_array |-> [p \in Pixels |-> <<0, 0, 0>>]]

gen_base_arrays_ones(ori_image, num_clusts) ==
    [final_array |-> [n \in 1..num_clusts |-> ori_image.pix],
     shares |-> (num_clusts - 1 <= 0),
     binary_array |-> [n \in 1..num_clusts |-> [p \in Pixels |-> 1]],
     all_mask_array |-> [p \in Pixels |-> <<0, 0, 0>>]]

gen_base_arrays(ori_image, num_clusts) ==
    [final_array |-> [n \in 1..num_clusts |-> ori_image.pix],
     shares |-> (num_clusts - 1 <= 0),
     binary_array |-> [n \in 1..num_clusts |-> [p \in Pixels |-> 0]],
     all_mask_array |-> [p \in Pixels |-> <<0, 0, 0>>]]

\* lines 149-153 for the pixel p, on the state st of the arrays; a raise
\* leaves the loop with the arrays as they are
RigPixel(st, img_clust, p, shape, writeable) ==
    LET key == img_clust[p]
        pal == PaletteLookup(key)
    IN IF st.status # "ok" THEN st
       ELSE IF ~CanAssignRGB(shape) \/ (st.shares /\ ~writeable)
       THEN [st EXCEPT !.status = "ValueError"]
       ELSE LET painted == [st EXCEPT
                              !.final[key + 1][p] = ZeroCell(@),
                              !.ori = IF st.shares THEN [@ EXCEPT ![p] = ZeroCell(@)] ELSE @,
                              !.binary[key + 1][p] = 1]
            IN IF pal.status # "ok"
               THEN [painted EXCEPT !.status = pal.status]
               ELSE [painted EXCEPT !.all[p] = pal.colour]

RECURSIVE RigLoop(_, _, _, _, _)
RigLoop(st, img_clust, n, shape, writeable) ==
    IF n > Len(PixelOrder) THEN st
    ELSE RigLoop(RigPixel(st, img_clust, PixelOrder[n], shape, writeable),
                 img_clust, n + 1, shape, writeable)

\* result_image_generator, lines 141-155: [status, final, binary, all], and
\* ori, the pixel values of original_image when the function is left
result_image_generator(img_clust, original_image) ==
    LET base == gen_base_arrays(original_image, NumClust(img_clust))
    IN RigLoop([status |-> "ok",
                final |-> base.final_array,
                shares |-> base.shares,
                binary |-> base.binary_array,
                all |-> base.all_mask_array,
                ori |-> original_image.pix],
               img_clust, 1, original_image.shape, original_image.writeable)

-----------------------------------------------------------------------------
(* The file system.  A path is a sequence of names; an absolute path       *)
(* starts with "/".                                                        *)

IsAbs(path) == Len(path) > 0 /\ path[1] = "/"
\* os.path.join(path, name) for a relative name
Join(path, name) == Append(path, name)
\* where the process finds `path`, given its working directory
Resolve(wd, path) == IF IsAbs(path) THEN path ELSE wd \o path
Parent(abs) == SubSeq(abs, 1, Len(abs) - 1)

Cwd0 == <<"/", "w">>
InDirAbs == <<"/", "w", "in">>
OutDirAbs == <<"/", "w", "out">>
Dirs0 == {<<"/">>, Cwd0, InDirAbs, OutDirAbs}

\* f"Image{count + 1}.jpg", line 108
ImageName(count) == "Image" \o ToString(count + 1) \o ".jpg"

\* generate_image_series, lines 88-108, on the file system fs = [cwd, dirs,
\* files, written]: image_array is the sequence of images, shape its shape
generate_image_series(image_array, shape, path0, prefix, fs) ==
    LET path == Join(path0, prefix)
        abs == Resolve(fs.cwd, path)
    IN IF Len(shape) # 4 THEN [status |-> "ValueError", fs |-> fs]
       ELSE IF shape[4] # 3 THEN [status |-> "ValueError", fs |-> fs]
       ELSE IF abs \notin fs.dirs /\ Parent(abs) \notin fs.dirs
       THEN [status |-> "FileNotFoundError", fs |-> fs]
       ELSE [status |-> "ok",
             fs |-> [cwd |-> abs,
                     dirs |-> fs.dirs \cup {abs},
                     files |-> fs.files \cup
                        {Join(abs, ImageName(count)) : count \in 0..(shape[1] - 1)},
                     written |-> fs.written \cup
                        {[path |-> Join(abs, ImageName(count)),
                          data |-> image_array[count + 1]] : count \in 0..(shape[1] - 1)}]]

\* the raw contours tried for a mask of the pipeline: none for an all-zero
\* mask, else none, one that passes the filter or one that is too small
MaskRawLists(mask) ==
    IF \A p \in Pixels : mask[p] = 0 THEN {<<>>}
    ELSE {<<>>, <<ContourA>>, <<ContourSmall>>}

RECURSIVE AnalyzerFold(_, _, _)
AnalyzerFold(st, raws, i) ==
    IF i >= Len(raws) THEN st
    ELSE LET gen == contour_generator(raws[i + 1])
         IN IF gen.status # "ok" THEN [st EXCEPT !.status = gen.status]
            ELSE AnalyzerFold(AnalyzerStep(st, i, gen) @@ [status |-> "ok"], raws, i + 1)

\* immune_cluster_analyzer, lines 235-247, up to the table: raws[n] is what
\* cv2.findContours returns for masks[n - 1]
immune_cluster_analyzer(raws) ==
    LET st == AnalyzerFold([status |-> "ok", contour_list |-> <<>>,
                            count_list |-> <<>>, count_index |-> 0], raws, 0)
    IN IF st.status # "ok" THEN [status |-> st.status, columns |-> <<>>, rows |-> <<>>]
       ELSE IF Len(raws) = 0 THEN [status |-> "IndexError", columns |-> <<>>, rows |-> <<>>]
       ELSE csv_results_compiler(st.contour_list[st.count_index + 1])

-----------------------------------------------------------------------------
(* image_postprocessing, lines 266-287, one action per statement           *)

Fs == [cwd |-> cwd, dirs |-> dirs, files |-> files, written |-> written]

Raise(type, at) ==
    /\ pp_pc' = "raised"
    /\ pp_err' = [type |-> type, at |-> at]

\* lines 266-267: result_image_generator(clusters, ori_img)
PostResultImages ==
    /\ pp_pc = "rig"
    /\ LET r == result_image_generator(clusters, ori_img)
       IN /\ ori_img' = [ori_img EXCEPT !.pix = r.ori]
          /\ IF r.status = "ok"
             THEN /\ masked_images' = r.final
                  /\ shares_input' = r.shares
                  /\ masks' = r.binary
                  /\ all_masks' = r.all
                  /\ pp_pc' = "base"
                  /\ UNCHANGED pp_err
             ELSE /\ Raise(r.status, "result_image_generator")
                  /\ UNCHANGED arrayVars
    /\ UNCHANGED <<fsVars, segVars, flagVars, clusters, img_at_call, filepath, written,
                   filterVars, analyzerVars>>

\* line 271: base_results_generator(ori_img, all_masks, mod_filepath),
\* lines 40-68.  all_masks is H x W x 3 by construction (line 122)
PostBaseResults ==
    /\ pp_pc = "base"
    /\ LET abs == Resolve(cwd, filepath)
       IN IF Len(ori_img.shape) # 3
          THEN /\ Raise("ValueError", "base_results_generator ndim")
               /\ UNCHANGED <<fsVars, written>>
          ELSE IF ori_img.shape[3] # 3
          THEN /\ Raise("ValueError", "base_results_generator channels")
               /\ UNCHANGED <<fsVars, written>>
          ELSE IF abs \notin dirs /\ Parent(abs) \notin dirs
          THEN /\ Raise("FileNotFoundError", "base_results_generator mkdir")
               /\ UNCHANGED <<fsVars, written>>
          ELSE /\ dirs' = dirs \cup {abs}
               /\ files' = files \cup {Join(abs, "Original.jpg"), Join(abs, "AllClusters.jpg")}
               /\ written' = written \cup
                     {[path |-> Join(abs, "Original.jpg"), data |-> ori_img.pix],
                      [path |-> Join(abs, "AllClusters.jpg"), data |-> all_masks]}
               /\ pp_pc' = "overlays"
               /\ UNCHANGED <<cwd, pp_err>>
    /\ UNCHANGED <<segVars, flagVars, arrayVars, clusters, ori_img, img_at_call, filepath,
                   filterVars, analyzerVars>>

\* the outcome of a generate_image_series call
SeriesOutcome(r, at, next) ==
    IF r.status = "ok"
    THEN /\ cwd' = r.fs.cwd
         /\ dirs' = r.fs.dirs
         /\ files' = r.fs.files
         /\ written' = r.fs.written
         /\ pp_pc' = next
         /\ UNCHANGED pp_err
    ELSE /\ Raise(r.status, at)
         /\ UNCHANGED <<fsVars, written>>

\* lines 273-276
PostOverlays ==
    /\ pp_pc = "overlays"
    /\ IF gen_overlays
       THEN SeriesOutcome(
              generate_image_series(masked_images,
                                    <<Len(masked_images)>> \o ori_img.shape,
                                    filepath, "Overlaid Images", Fs),
              "generate_image_series overlays", "masks")
       ELSE /\ pp_pc' = "masks"
            /\ UNCHANGED <<fsVars, written, pp_err>>
    /\ UNCHANGED <<segVars, flagVars, arrayVars, clusters, ori_img, img_at_call, filepath,
                   filterVars, analyzerVars>>

\* line 279: masks * 255, an array of shape (num_clust, H, W)
MasksImgs == [n \in 1..Len(masks) |-> [p \in Pixels |-> masks[n][p] * 255]]

\* lines 278-282
PostMasks ==
    /\ pp_pc = "masks"
    /\ IF gen_masks
       THEN SeriesOutcome(
              generate_image_series(MasksImgs, <<Len(masks), Rows, Cols>>,
                                    filepath, "Masks", Fs),
              "generate_image_series masks", "csv")
       ELSE /\ pp_pc' = "csv"
            /\ UNCHANGED <<fsVars, written, pp_err>>
    /\ UNCHANGED <<segVars, flagVars, arrayVars, clusters, ori_img, img_at_call, filepath,
                   filterVars, analyzerVars>>

\* lines 284-287: immune_cluster_analyzer(masks, mod_filepath); the table
\* goes to os.path.join(filepath, "Compiled_Data.csv") (lines 220-221),
\* which to_csv can open only in a directory that exists
PostCsv ==
    /\ pp_pc = "csv"
    /\ IF gen_csv
       THEN \E raws \in {rs \in [1..Len(masks) -> {<<>>, <<ContourA>>, <<ContourSmall>>}] :
                           \A n \in 1..Len(masks) : rs[n] \in MaskRawLists(masks[n])} :
              LET t == immune_cluster_analyzer(raws)
                  abs == Resolve(cwd, Join(filepath, "Compiled_Data.csv"))
              IN IF t.status # "ok"
                 THEN /\ Raise(t.status, "immune_cluster_analyzer")
                      /\ UNCHANGED <<files, written>>
                 ELSE IF Parent(abs) \notin dirs
                 THEN /\ Raise("OSError", "csv_results_compiler to_csv")
                      /\ UNCHANGED <<files, written>>
                 ELSE /\ files' = files \cup {abs}
                      /\ written' = written \cup {[path |-> abs, data |-> t.rows]}
                      /\ pp_pc' = "returned"
                      /\ UNCHANGED pp_err
       ELSE /\ pp_pc' = "returned"
            /\ UNCHANGED <<files, written, pp_err>>
    /\ UNCHANGED <<cwd, dirs, segVars, flagVars, arrayVars, clusters, ori_img, img_at_call,
                   filepath, filterVars, analyzerVars>>

-----------------------------------------------------------------------------
(* segment_TILs, lines 482-543                                             *)

\* the bound on the number of files in the input directory
NumFiles == 2
\* line 530: at most this many distinct labels
MaxUnique == 8

\* a file of the input directory is an RGB patch, an image that is not
\* H x W x 3 (grey, RGBA), or no image at all
PatchKinds == {"rgb", "not rgb", "undecodable"}

FileStem(i) == "p" \o ToString(i)

\* lines 500-503: os.mkdir in a try/except that passes
TryMkdir(ds, abs) ==
    IF abs \notin ds /\ Parent(abs) \in ds THEN ds \cup {abs} ELSE ds

\* the file the loop takes next
NextIndex == seg_i + 1

\* lines 496-515: plt.imread raises on a path that does not resolve to the
\* file and on a file that is no image; lines 518, 536: a patch that is not
\* H x W x 3 cannot be reshaped to (-1, 3) and back to H x W labels.  Nothing
\* around the loop body catches, so the exception leaves segment_TILs
SegReadFails ==
    /\ caller = "segment_TILs"
    /\ seg_pc = "loop"
    /\ pp_pc \in {"idle", "returned"}
    /\ seg_i < Len(in_files)
    /\ \/ Resolve(cwd, in_dir_path) # InDirAbs
       \/ in_files[NextIndex] # "rgb"
    /\ seg_i' = NextIndex
    /\ dirs' = TryMkdir(dirs, Resolve(cwd, Join(out_dir_path, FileStem(NextIndex))))
    /\ seg_pc' = "raised"
    /\ pp_pc' = "idle"
    /\ pp_err' = [type |-> IF Resolve(cwd, in_dir_path) # InDirAbs THEN "FileNotFoundError"
                           ELSE IF in_files[NextIndex] = "undecodable"
                           THEN "UnidentifiedImageError" ELSE "ValueError",
                  at |-> "segment_TILs"]
    /\ UNCHANGED <<cwd, files, caller, in_files, in_dir_path, out_dir_path, flagVars,
                   arrayVars, clusters, ori_img, img_at_call, filepath, written,
                   filterVars, analyzerVars>>

\* lines 496-541 for a patch that reads: the model predicts `labels`, the
\* check of line 530 passes or raises, and image_postprocessing is called
SegCall ==
    /\ caller = "segment_TILs"
    /\ seg_pc = "loop"
    /\ pp_pc \in {"idle", "returned"}
    /\ seg_i < Len(in_files)
    /\ Resolve(cwd, in_dir_path) = InDirAbs
    /\ in_files[NextIndex] = "rgb"
    /\ seg_i' = NextIndex
    /\ dirs' = TryMkdir(dirs, Resolve(cwd, Join(out_dir_path, FileStem(NextIndex))))
    /\ \E pred_patch \in ValidImages, labels \in LabelMaps :
         IF Cardinality(Range(labels)) <= MaxUnique
         THEN /\ clusters' = labels
              /\ ori_img' = pred_patch
              /\ img_at_call' = pred_patch.pix
              /\ filepath' = Join(out_dir_path, FileStem(NextIndex))
              /\ pp_pc' = "rig"
              /\ pp_err' = NoError
              /\ masked_images' = <<>>
              /\ shares_input' = FALSE
              /\ masks' = <<>>
              /\ all_masks' = <<>>
              /\ written' = {}
              /\ UNCHANGED seg_pc
         ELSE /\ seg_pc' = "raised"
              /\ pp_pc' = "idle"
              /\ pp_err' = [type |-> "RuntimeError", at |-> "segment_TILs"]
              /\ UNCHANGED <<arrayVars, clusters, ori_img, img_at_call, filepath, written>>
    /\ UNCHANGED <<cwd, files, caller, in_files, in_dir_path, out_dir_path, flagVars,
                   filterVars, analyzerVars>>

\* an exception of image_postprocessing leaves the loop and segment_TILs
SegPropagate ==
    /\ caller = "segment_TILs"
    /\ seg_pc = "loop"
    /\ pp_pc = "raised"
    /\ seg_pc' = "raised"
    /\ UNCHANGED <<fsVars, caller, seg_i, in_files, in_dir_path, out_dir_path, flagVars,
                   arrayVars, callVars, filterVars, analyzerVars>>

\* line 543: the loop is through
SegReturn ==
    /\ caller = "segment_TILs"
    /\ seg_pc = "loop"
    /\ pp_pc \in {"idle", "returned"}
    /\ seg_i = Len(in_files)
    /\ seg_pc' = "done"
    /\ UNCHANGED <<fsVars, caller, seg_i, in_files, in_dir_path, out_dir_path, flagVars,
                   arrayVars, callVars, filterVars, analyzerVars>>

-----------------------------------------------------------------------------
(* The specifications                                                      *)

PipelineIdle ==
    /\ cwd = Cwd0 /\ dirs = Dirs0 /\ files = {}
    /\ caller = "none" /\ seg_pc = "idle" /\ seg_i = 0 /\ in_files = <<>>
    /\ in_dir_path = <<>> /\ out_dir_path = <<>>
    /\ pp_pc = "idle" /\ pp_err = NoError
    /\ clusters = <<>> /\ ori_img = NoImage /\ img_at_call = <<>> /\ filepath = <<>>
    /\ gen_overlays = FALSE /\ gen_masks = FALSE /\ gen_csv = FALSE
    /\ masked_images = <<>> /\ shares_input = FALSE /\ masks = <<>> /\ all_masks = <<>>
    /\ written = {}

\* the filepath arguments tried: "res" and "/w/res", to be created, and
\* "." (the empty relative path), the working directory itself
FilePaths == {<<"res">>, <<"/", "w", "res">>, <<>>}

\* a user calls image_postprocessing(clusters, ori_img, filepath, ...)
DirectInit ==
    /\ cwd = Cwd0 /\ dirs = Dirs0 /\ files = {}
    /\ caller = "direct" /\ seg_pc = "idle" /\ seg_i = 0 /\ in_files = <<>>
    /\ in_dir_path = <<>> /\ out_dir_path = <<>>
    /\ pp_pc = "rig" /\ pp_err = NoError
    /\ clusters \in LabelMaps
    /\ ori_img \in ValidImages \cup InvalidImages
    /\ img_at_call = ori_img.pix
    /\ filepath \in FilePaths
    /\ gen_overlays \in BOOLEAN /\ gen_masks \in BOOLEAN /\ gen_csv \in BOOLEAN
    /\ masked_images = <<>> /\ shares_input = FALSE /\ masks = <<>> /\ all_masks = <<>>
    /\ written = {}

\* a user calls segment_TILs(model, in_dir_path, out_dir_path, ...) with a
\* fitted model and two directories that exist (lines 482-493, 505-512)
SegInit ==
    /\ cwd = Cwd0 /\ dirs = Dirs0 /\ files = {}
    /\ caller = "segment_TILs" /\ seg_pc = "loop" /\ seg_i = 0
    /\ in_files \in [1..NumFiles -> PatchKinds]
    /\ \/ in_dir_path = <<"in">> /\ out_dir_path = <<"out">>
       \/ in_dir_path = InDirAbs /\ out_dir_path = OutDirAbs
    /\ pp_pc = "idle" /\ pp_err = NoError
    /\ clusters = <<>> /\ ori_img = NoImage /\ img_at_call = <<>> /\ filepath = <<>>
    /\ gen_overlays \in BOOLEAN /\ gen_masks \in BOOLEAN /\ gen_csv \in BOOLEAN
    /\ masked_images = <<>> /\ shares_input = FALSE /\ masks = <<>> /\ all_masks = <<>>
    /\ written = {}

Init == FilterIdle /\ AnalyzerIdle /\ (DirectInit \/ SegInit)

Next ==
    \/ PostResultImages
    \/ PostBaseResults
    \/ PostOverlays
    \/ PostMasks
    \/ PostCsv
    \/ SegReadFails
    \/ SegCall
    \/ SegPropagate
    \/ SegReturn

Spec == Init /\ [][Next]_vars

InitFilter == FilterInit /\ AnalyzerIdle /\ PipelineIdle
NextFilter == FilterCall /\ UNCHANGED <<analyzerVars, pipelineVars>>
SpecFilter == InitFilter /\ [][NextFilter]_vars

InitAnalyzer == FilterIdle /\ AnalyzerInit /\ PipelineIdle
NextAnalyzer ==
    \/ AnalyzerLoop /\ UNCHANGED <<filterVars, pipelineVars>>
    \/ AnalyzerCompile /\ UNCHANGED <<filterVars, pipelineVars>>
SpecAnalyzer == InitAnalyzer /\ [][NextAnalyzer]_vars

-----------------------------------------------------------------------------
(* Properties                                                              *)

\* result_image_generator has returned to image_postprocessing
RigReturned ==
    \/ pp_pc \in {"base", "overlays", "masks", "csv", "returned"}
    \/ pp_pc = "raised" /\ pp_err.at # "result_image_generator"

ValidShape == Len(ori_img.shape) = 3 /\ ori_img.shape[3] = 3

C5_InputUntouched ==
    RigReturned =>
        /\ ori_img.pix = img_at_call
        /\ ~shares_input
        /\ \A w \in written :
             w.path[Len(w.path)] = "Original.jpg" => w.data = img_at_call

\* C6 (as claimed): with gen_masks the mask series never raises, and once it
\* is through the call has written Image1.jpg .. ImageK.jpg under Masks,
\* each the mask scaled by 255.
C6_MasksWritten ==
    /\ pp_pc = "raised" => pp_err.at # "generate_image_series masks"
    /\ (gen_masks /\ pp_pc \in {"csv", "returned"}) =>
         \A n \in 1..Len(masks) :
           \E w \in written :
             /\ Len(w.path) >= 2
             /\ w.path[Len(w.path) - 1] = "Masks"
             /\ w.path[Len(w.path)] = ImageName(n - 1)
             /\ w.data = [p \in Pixels |-> 255 * masks[n][p]]

\* C7 (as claimed): for an image that is not H x W x 3 the call ends in the
\* shape validation of base_results_generator, and before that no mask,
\* overlay or combined overlay is built and nothing is written.
C7_ValidationFirst ==
    (pp_pc # "idle" /\ ~ValidShape) =>
        /\ masks = <<>> /\ masked_images = <<>> /\ all_masks = <<>>
        /\ written = {}
        /\ pp_pc = "raised" =>
             pp_err.at \in {"base_results_generator ndim", "base_results_generator channels"}

\* C8 (as claimed): when segment_TILs is over, by return or by an exception,
\* the loop has been at every readable patch of the directory: a failure at
\* one file does not keep it from the files after it.
C8_BatchContinues ==
    (caller = "segment_TILs" /\ seg_pc \in {"done", "raised"}) =>
        \A i \in 1..Len(in_files) : in_files[i] = "rgb" => i <= seg_i

\* C9 (as claimed): the working directory of the process is what it was
\* before the call; no call changes it, so it stays what it was at the start.
C9_CwdKept == cwd = Cwd0

\* a path lies under a directory
Under(dir, path) == Len(path) > Len(dir) /\ SubSeq(path, 1, Len(dir)) = dir

\* C10: a call whose label map holds a label of 4 or more never gets past
\* result_image_generator: it raises there, and it writes no file, so no
\* file exists under its target directory.
C10_TooManyClustersFatal ==
    (pp_pc # "idle" /\ \E p \in Pixels : clusters[p] >= Len(colors_overlay)) =>
        /\ pp_pc \in {"rig", "raised"}
        /\ pp_pc = "raised" => pp_err.at = "result_image_generator"
        /\ written = {}
        /\ \A f \in files : ~Under(Resolve(cwd, filepath), f)

\* the second patch of a batch ends in the IndexError of the palette after
\* the first patch was written
C10_Witness ==
    /\ caller = "segment_TILs"
    /\ seg_i = 2
    /\ files # {}
    /\ pp_pc = "raised"
    /\ pp_err = [type |-> "IndexError", at |-> "result_image_generator"]
    /\ NumClust(clusters) = 5

\* C2: after every pass of the loop of immune_cluster_analyzer the running
\* best index is the smallest index that holds the greatest count so far,
\* and so is the index chosen when the loop is through.
C2_FirstMaxSelected ==
    (an_pc \in {"loop", "done"} /\ an_i >= 1) =>
        /\ Len(count_list) = an_i
        /\ count_index \in 0..(an_i - 1)
        /\ \A j \in 0..(an_i - 1) : count_list[j + 1] <= count_list[count_index + 1]
        /\ \A j \in 0..(count_index - 1) : count_list[j + 1] < count_list[count_index + 1]

\* two clusters tie with one accepted contour each and the first is chosen
C2_Witness ==
    /\ an_pc = "done"
    /\ an_nmasks >= 2
    /\ count_list[1] = 1 /\ count_list[2] = 1
    /\ count_index = 0

\* C3: filter_boolean returns without raising; it accepts exactly the
\* contours with 200 < area < 2000 and perimeter^2 / (4 pi area) < 3, and
\* for area 0 or perimeter 0 it returns false without the division.
C3_FilterAccepts ==
    fb_pc = "done" =>
        /\ fb_result.status = "ok"
        /\ fb_result.meets_crit <=>
             /\ fb_contour.area2 > 2 * AreaMin
             /\ fb_contour.area2 < 2 * AreaMax
             /\ PiDen * fb_contour.per * fb_contour.per
                  < RoundnessMax * 2 * PiNum * fb_contour.area2
        /\ (fb_contour.area2 = 0 \/ fb_contour.per = 0) =>
             ~fb_result.meets_crit /\ ~fb_result.roundness_computed

\* a round enough contour of area exactly 200 is rejected
C3_Witness ==
    /\ fb_pc = "done"
    /\ fb_contour.area2 = 2 * AreaMin
    /\ fb_contour.per = 80
    /\ fb_result.roundness_computed
    /\ ~fb_result.meets_crit

\* the palette as the documentation lists it: black, red, green, blue
Palette4 == << <<0, 0, 0>>, <<255, 0, 0>>, <<0, 255, 0>>, <<0, 0, 255>> >>

\* C11: whenever result_image_generator returns (which needs K <= 4), the
\* combined overlay holds at every pixel the palette entry of that pixel's
\* label, and a pixel differs from the zero it was initialised with
\* exactly when its label is not 0 (label 0 is painted black, which is
\* the initial value)
C11_CombinedOverlay ==
    RigReturned =>
        /\ NumClust(clusters) <= 4
        /\ DOMAIN all_masks = Pixels
        /\ \A p \in Pixels :
              /\ all_masks[p] = Palette4[clusters[p] + 1]
              /\ (all_masks[p] # <<0, 0, 0>>) <=> (clusters[p] # 0)

\* a returned call on a valid image whose label map holds both label 0 and
\* label 3: one pixel black, one blue
C11_Witness ==
    /\ RigReturned /\ ValidShape
    /\ \E p, q \in Pixels :
          /\ clusters[p] = 0 /\ all_masks[p] = <<0, 0, 0>>
          /\ clusters[q] = 3 /\ all_masks[q] = <<0, 0, 255>>

\* C11 as stated: every pixel holds its palette entry and none is left at
\* its initial value
C11_NoPixelAtInitialValue ==
    (RigReturned /\ ValidShape) =>
        \A p \in Pixels :
            /\ all_masks[p] = Palette4[clusters[p] + 1]
            /\ all_masks[p] # <<0, 0, 0>>

\* immune_cluster_analyzer has finished, with a table or with an error
AnalyzerOver == an_pc \in {"done", "error"}

\* the contours of the cluster the loop selected
SelectedContours == contour_list[count_index + 1]

C13_RowsAreSelectedContours ==
    an_pc = "done" =>
        /\ Len(an_csv.rows) = Len(SelectedContours)
        /\ Len(an_csv.rows) = count_list[count_index + 1]
        /\ \A i \in 1..Len(SelectedContours) :
              LET c == SelectedContours[i]
              IN an_csv.rows[i] = [area2 |-> c.area2, per |-> c.per,
                                   roundness |-> <<c.per * c.per, 2 * c.area2>>,
                                   circle |-> c.rad * c.rad]

\* a table of two different rows from the second cluster, while the first
\* cluster had an accepted contour of its own
C13_Witness ==
    /\ an_pc = "done" /\ count_index = 1
    /\ Len(contour_list[1]) = 1
    /\ SelectedContours = <<ContourB, ContourA>>
    /\ Len(an_csv.rows) = 2 /\ an_csv.rows[1].area2 = ContourB.area2

\* 200 < area < 2000, perimeter # 0 and perimeter^2 / (4*pi*area) < 3.0,
\* on the measurements of a contour (area2 is twice the area)
PassedFilter(c) ==
    /\ c.area2 > 2 * 200 /\ c.area2 < 2 * 2000
    /\ c.per # 0
    /\ 2 * 113 * c.per * c.per < 3 * 4 * 355 * c.area2

\* C16: every contour immune_cluster_analyzer collects, and so every
\* contour it hands to csv_results_compiler, has passed filter_boolean:
\* 200 < area < 2000 and perimeter # 0; the division of line 212 never
\* divides by zero, and every row of the table has its Area strictly
\* between 200 and 2000 and its Roundness below 3.0
C16_OnlyFilteredContoursCompiled ==
    /\ \A k \in 1..Len(contour_list) : \A i \in 1..Len(contour_list[k]) :
          PassedFilter(contour_list[k][i])
    /\ an_pc # "error"
    /\ an_csv.status # "ZeroDivisionError"
    /\ \A i \in 1..Len(an_csv.rows) :
          LET row == an_csv.rows[i]
          IN /\ row.area2 > 2 * 200 /\ row.area2 < 2 * 2000
             /\ 113 * row.roundness[1] < 3 * 355 * row.roundness[2]

\* a table was compiled from accepted contours
C16_Witness ==
    /\ an_pc = "done" /\ an_csv.status = "ok"
    /\ Len(an_csv.rows) = 2
    /\ \A i \in 1..2 : PassedFilter(SelectedContours[i])

\* the call of image_postprocessing is over, by return or by exception
PostOver == pp_pc \in {"returned", "raised"}

\* a valid call in the sense of C14: a writeable H x W x 3 image and a
\* label map with at most four clusters
ValidCall ==
    /\ pp_pc # "idle" /\ ValidShape /\ ori_img.writeable
    /\ NumClust(clusters) <= 4

\* the directory the caller named, seen from where the process started
TargetDir == Resolve(Cwd0, filepath)

Last(path) == path[Len(path)]

\* C14: after a valid call, Original.jpg and AllClusters.jpg exist at the
\* top of the target directory whatever the flags; the directory
\* Overlaid Images exists there, with exactly the files Image1.jpg ..
\* ImageK.jpg, iff gen_overlays; Compiled_Data.csv exists there iff gen_csv
C14_ArtifactsFollowFlags ==
    (PostOver /\ ValidCall) =>
        LET overlaid == Join(TargetDir, "Overlaid Images")
        IN /\ TargetDir \in dirs
           /\ Join(TargetDir, "Original.jpg") \in files
           /\ Join(TargetDir, "AllClusters.jpg") \in files
           /\ gen_overlays <=> (overlaid \in dirs)
           /\ gen_overlays =>
                 {f \in files : Parent(f) = overlaid} =
                 {Join(overlaid, ImageName(k)) : k \in 0..(NumClust(clusters) - 1)}
           /\ gen_csv <=> (Join(TargetDir, "Compiled_Data.csv") \in files)

\* C15: every file one call writes lies under the target directory; a
\* Masks directory and Compiled_Data.csv are made directly inside the
\* directory that holds Original.jpg, also after the overlay series was
\* written, so the CSV step finds its directory
C15_OneTargetDirectory ==
    ValidCall =>
        /\ \A f \in written : Under(TargetDir, f.path)
        /\ \A o, f \in written :
              (Last(o.path) = "Original.jpg" /\ Last(f.path) = "Compiled_Data.csv")
                  => Parent(f.path) = Parent(o.path)
        /\ \A d \in dirs : Last(d) = "Masks" => Parent(d) = TargetDir
        /\ pp_err.at # "csv_results_compiler to_csv"

====
